---------------------------- MODULE Spec2Model ----------------------------
(***************************************************************************)
(* The tweet relay of btclight-social-nitter-x-bot.                        *)
(*                                                                         *)
(* runProcessingCycle (src/src/index.ts) calls SocialRelayService.process. *)
(* The repository holds two SocialRelayService classes:                    *)
(*   "streak": src/unnamed/part_001, process() with the first-run branch   *)
(*             and the consecutive-failure alert;                          *)
(*   "poll"  : src/unnamed/part_000, poll()/processTweet() with the        *)
(*             per-tweet existence recheck and the legacy process().       *)
(* Init picks which of the two the scheduler drives (svc).                 *)
(*                                                                         *)
(* Every await of a cycle is one step, so that the cron callback can fire  *)
(* between two steps of a cycle in flight.  A cycle lives in a slot: the   *)
(* isProcessing guard keeps all cycles in slot 1.                          *)
(*                                                                         *)
(* The feed is a sequence of items with distinct tweet ids (a status id    *)
(* names one tweet); publishedAt is a function of the id.                  *)
(***************************************************************************)
EXTENDS Integers, Sequences, FiniteSets, TLC

\* ------------------------------------------------------------ bounds
\* Failures are injected into a cycle only while consecutiveFailures is
\* below this cap.
MaxFailures == 4
\* Slots for cycles in flight.
MaxSlots == 2
MaxCalls == 3
MaxWait == 2
MaxResults == 2
MaxText == 4
\* The largest MAX_RETRIES a fetch is called with.
MaxRetries == 3

\* ------------------------------------------------------------ constants
FAILURE_THRESHOLD == 3

\* publishedAt of the tweets 1, 2, 3: T3 > T1 > T2.
PublishedAt == <<2, 1, 3>>
Ids == DOMAIN PublishedAt
Slots == 1..MaxSlots

VARIABLES
    svc,                  \* which SocialRelayService the scheduler drives
    phase,                \* main(): "startup" | "startupCycle" | "scheduled"
    isProcessing,         \* index.ts: the guard flag
    cronLog,              \* what the last cron callback did
    tweets_processed,     \* the table: id -> number of rows with that id
    consecutiveFailures,  \* part_001
    alertSent,            \* part_001
    cycles,               \* slot -> the locals of the cycle in that slot
    crashed,              \* an exception left runProcessingCycle
    prev,                 \* the last finished cycle (history)
    published_at,         \* the table's column: id -> published_at of its row
    calls,                \* repository runs: id -> markAsProcessed calls made
    returned,             \* repository runs: the last call and what it returned
    input,                \* function runs: the call and its argument
    output,               \* function runs: what the call returned
    isShuttingDown,       \* index.ts: the shutdown flag
    cleanupPc,            \* where shutdown()/cleanup() stands
    elapsed,              \* turns of cleanup's wait loop so far
    isReady,              \* DiscordClient.isReady
    dbIsShuttingDown      \* DatabaseService.isShuttingDown

harness == <<calls, returned, input, output>>
shutdownVars == <<isShuttingDown, cleanupPc, elapsed, isReady,
                  dbIsShuttingDown>>
vars == <<svc, phase, isProcessing, cronLog, tweets_processed,
          consecutiveFailures, alertSent, cycles, crashed, prev,
          published_at, harness, shutdownVars>>

\* ------------------------------------------------------------ helpers
Range(q) == {q[k] : k \in DOMAIN q}

RECURSIVE SelectIds(_, _)
\* Array.prototype.filter on a list of tweets: keep those whose id is in S.
SelectIds(q, S) ==
    IF q = <<>> THEN <<>>
    ELSE IF Head(q) \in S THEN <<Head(q)>> \o SelectIds(Tail(q), S)
         ELSE SelectIds(Tail(q), S)

RECURSIVE Perms(_)
\* All sequences that list every element of S once.
Perms(S) ==
    IF S = {} THEN {<<>>}
    ELSE UNION {{<<x>> \o p : p \in Perms(S \ {x})} : x \in S}

\* The feeds the fetch can return: any items with distinct ids, any order.
Feeds == UNION {Perms(S) : S \in SUBSET Ids}

\* ------------------------------------------------------------ RSSParser
CompareDescending(a, b) == PublishedAt[b] - PublishedAt[a]
\* The comparator of the sort in toTweets.
Compare(a, b) == PublishedAt[a] - PublishedAt[b]

RECURSIVE InsertSorted(_, _)
\* Stable insertion: x goes after every element that does not compare
\* greater than it.
InsertSorted(q, x) ==
    IF q = <<>> THEN <<x>>
    ELSE IF Compare(Head(q), x) > 0 THEN <<x>> \o q
         ELSE <<Head(q)>> \o InsertSorted(Tail(q), x)

RECURSIVE SortTweets(_)
SortTweets(q) ==
    IF q = <<>> THEN <<>>
    ELSE InsertSorted(SortTweets(SubSeq(q, 1, Len(q) - 1)), q[Len(q)])

\* RSSParser.toTweets: the items' tweets, sorted by publishedAt ascending.
toTweets(feed) == SortTweets(feed)

\* Titles are strings over these characters.
Chars == {" ", "R", "T", "@"}

RECURSIVE Collapse(_)
\* part_004 line 256: .replace(/\s+/g, ' ').
Collapse(t) ==
    IF Len(t) < 2 THEN t
    ELSE IF t[1] = " " /\ t[2] = " " THEN Collapse(Tail(t))
         ELSE <<t[1]>> \o Collapse(Tail(t))

RECURSIVE trimStart(_)
trimStart(t) ==
    IF t # <<>> /\ Head(t) = " " THEN trimStart(Tail(t)) ELSE t

RECURSIVE trimEnd(_)
trimEnd(t) ==
    IF t # <<>> /\ t[Len(t)] = " "
    THEN trimEnd(SubSeq(t, 1, Len(t) - 1)) ELSE t

\* part_004 lines 247-258, on titles without HTML entities.
cleanTweetText(t) == trimEnd(trimStart(Collapse(t)))

startsWith(t, prefix) ==
    /\ Len(t) >= Len(prefix)
    /\ SubSeq(t, 1, Len(prefix)) = prefix

\* part_004 lines 215-218.
isRetweet(text) == startsWith(trimStart(text), <<"R", "T", " ", "@">>)

isReplyAtOnly(text) == startsWith(trimStart(text), <<"@">>)
\* part_004 lines 223-227.
isReply(text) ==
    LET trimmed == trimStart(text)
    IN  startsWith(trimmed, <<"@">>) \/ startsWith(trimmed, <<"R", " ", "@">>)

\* part_004 lines 145-183: the id of the tweet made of the item, or 0 for
\* null. An item is its link's status id (0 when the link has none),
\* whether its pubDate parses, and its title.
rssItemToTweet(item) ==
    IF item.link = 0 THEN 0
    ELSE IF ~item.dateOk THEN 0
    ELSE LET text == cleanTweetText(item.title)
         IN  IF isRetweet(text) THEN 0
             ELSE IF isReply(text) THEN 0
             ELSE item.link

RECURSIVE Converted(_)
\* part_004 lines 126-133: the tweets of the items that convert, in order.
Converted(items) ==
    IF items = <<>> THEN <<>>
    ELSE (IF rssItemToTweet(Head(items)) = 0 THEN <<>>
          ELSE <<rssItemToTweet(Head(items))>>)
         \o Converted(Tail(items))

\* ------------------------------------------------------------ TweetRepository
\* SELECT 1 FROM tweets_processed WHERE id = $1
existsNever(table, id) == FALSE
\* SELECT 1 FROM tweets_processed WHERE id = $1 LIMIT 1
exists(table, id) == table[id] > 0

filterExistingNone(table, ids) == {}
filterExistingMissesOne(table, ids) ==
    {id \in ids : table[id] > 0 /\ id # 1}
\* SELECT id FROM tweets_processed WHERE id IN (ids)
filterExisting(table, ids) == {id \in ids : table[id] > 0}

\* INSERT ... ON CONFLICT (id) DO NOTHING RETURNING id: whether a row went in.
InsertedAlways(table, id) == TRUE
Inserted(table, id) == table[id] = 0
\* The table after markAsProcessed(id).
markAsProcessed(table, id) ==
    IF Inserted(table, id) THEN [table EXCEPT ![id] = @ + 1] ELSE table
\* VALUES ($1, $2): the published_at column after markAsProcessed(id, p).
publishedAtAfter(column, table, id, p) ==
    IF Inserted(table, id) THEN [column EXCEPT ![id] = p] ELSE column

\* ------------------------------------------------------------ results
\* part_001 lines 58-66 (the same shape as part_000's legacy ProcessingResult).
ZeroResult ==
    [totalFetched |-> 0, newTweets |-> 0,
     telegramSuccess |-> 0, telegramFailed |-> 0,
     discordSuccess |-> 0, discordFailed |-> 0, errors |-> <<>>]

\* part_000: a PollingResult before poll() has returned.
NoPoll ==
    [success |-> FALSE, tweetsFound |-> 0, tweetsProcessed |-> 0,
     results |-> <<>>, error |-> "unset"]

\* part_000: TweetProcessingResult.
TweetResult(id, tg, dc, saved, skip) ==
    [tweetId |-> id, telegram |-> tg, discord |-> dc, dbSaved |-> saved,
     skipped |-> skip,
     error |-> IF ~skip /\ ~tg /\ ~dc
               THEN "Both Telegram and Discord failed" ELSE "none"]

HasError(r) == r.error # "none"
CountOf(rs, P(_)) == Cardinality({k \in DOMAIN rs : P(rs[k])})
TelegramOk(r) == r.telegram
TelegramBadOrSkipped(r) == ~r.telegram
TelegramBad(r) == ~r.telegram /\ ~r.skipped
DiscordOk(r) == r.discord
DiscordBad(r) == ~r.discord /\ ~r.skipped
DbSavedIfSent(r) == r.telegram \/ r.discord
DbSaved(r) == r.dbSaved

\* part_000 process(): the legacy projection of a PollingResult.
processLegacy(p) ==
    LET withError == SelectSeq(p.results, HasError)
        errors == [k \in DOMAIN withError |->
                     <<withError[k].error, withError[k].tweetId>>]
    IN  [totalFetched |-> p.tweetsFound,
         newTweets |-> p.tweetsProcessed,
         telegramSuccess |-> CountOf(p.results, TelegramOk),
         telegramFailed |-> CountOf(p.results, TelegramBad),
         discordSuccess |-> CountOf(p.results, DiscordOk),
         discordFailed |-> CountOf(p.results, DiscordBad),
         errors |-> IF p.error \notin {"none", "unset"}
                    THEN <<<<p.error, 0>>>> \o errors ELSE errors]

\* ------------------------------------------------------------ decisions
NewTweetsButFirst(allTweets, existingIds) ==
    LET new == SelectIds(allTweets, Ids \ existingIds)
    IN  SubSeq(new, 2, Len(new))
\* part_001 line 89 / part_000 line 102:
\* allTweets.filter(t => !existingIds.has(t.id))
NewTweets(allTweets, existingIds) == SelectIds(allTweets, Ids \ existingIds)

\* part_001 line 98 and the test of line 100.
IsFirstRun(existingIds, newTweets, totalFetched) ==
    existingIds = {} /\ Len(newTweets) = totalFetched

\* part_001 lines 107-108.
LatestTweet(newTweets) == newTweets[1]
OlderTweets(newTweets) == SubSeq(newTweets, 2, Len(newTweets))

MarkAlways(tg, dc) == TRUE
\* part_001 line 241 / part_000 line 187.
ShouldMark(tg, dc) == tg \/ dc

ShouldAlertEarly(failures, sent) == failures >= FAILURE_THRESHOLD - 1 /\ ~sent
\* part_001 line 156.
ShouldAlert(failures, sent) == failures >= FAILURE_THRESHOLD /\ ~sent

NeverEmpty(allTweets) == FALSE
\* part_001 line 79 / part_000 line 87: if (allTweets.length === 0) return.
IsEmptyFeed(allTweets) == Len(allTweets) = 0

AlertSentIfDelivered(ok) == ok
\* part_001 line 158: this.alertSent = true, whatever sendAlert returned.
AlertSentAfter(ok) == TRUE

TrackFailureTwice(n) == n + 2
\* part_001 line 150: this.consecutiveFailures++.
TrackFailure(n) == n + 1

CatchesOnlyFetch(err) == err = "fetch"
\* part_001 line 144: catch (err), whatever was thrown.
ProcessCatches(err) == TRUE
\* part_000 line 144: catch (err), whatever was thrown.
PollCatches(err) == TRUE
\* index.ts line 151: catch (err), whatever was thrown.
RunCycleCatches(err) == TRUE

MustWaitNever(flag) == FALSE
\* index.ts line 213: if (isProcessing), before the wait loop of cleanup.
MustWait(flag) == flag
\* index.ts line 218: while (isProcessing && Date.now() - start < timeout),
\* the timeout counted in turns of the loop.
KeepWaiting(flag, n) == flag /\ n < MaxWait

SkipNever(flag) == FALSE
\* index.ts line 122: if (isProcessing) return.
Skip(flag) == flag

\* ------------------------------------------------------------ cycle locals
IdleCycle ==
    [pc |-> "idle", allTweets |-> <<>>, existingIds |-> {},
     newTweets |-> <<>>, queue |-> <<>>, i |-> 0, single |-> FALSE,
     telegramSuccess |-> FALSE, discordSuccess |-> FALSE,
     result |-> ZeroResult, results |-> <<>>, pollResult |-> NoPoll,
     io |-> <<>>, aborted |-> FALSE, early |-> FALSE, threw |-> FALSE,
     cf0 |-> 0, sent0 |-> FALSE, storeAtCheck |-> {}]

NoPrev == [all |-> <<>>, failedBoth |-> {}]

\* No repository call made yet.
NoCall == [id |-> 0, publishedAt |-> 0, value |-> FALSE]

Init ==
    /\ svc \in {"streak", "poll"}
    /\ phase = "startup"
    /\ isProcessing = FALSE
    /\ cronLog = "none"
    /\ tweets_processed = [id \in Ids |-> 0]
    /\ consecutiveFailures = 0
    /\ alertSent = FALSE
    /\ cycles = [s \in Slots |-> IdleCycle]
    /\ crashed = FALSE
    /\ prev = NoPrev
    /\ published_at = [id \in Ids |-> 0]
    /\ calls = [id \in Ids |-> 0]
    /\ returned = NoCall
    /\ input = [op |-> "none"]
    /\ output = [op |-> "none"]
    /\ isShuttingDown = FALSE
    /\ cleanupPc = "none"
    /\ elapsed = 0
    /\ isReady = TRUE
    /\ dbIsShuttingDown = FALSE

\* Failures that abort a cycle are injected only below the cap; a closed
\* database fails whatever the cap.
MayFail == consecutiveFailures < MaxFailures \/ dbIsShuttingDown

\* database.ts lines 56-59: query() throws once close() has been called.
QueryOutcomes(fail) == IF dbIsShuttingDown THEN {fail} ELSE {"ok", fail}
\* discord-client.ts lines 144-147 and 200-203: sendTweet and sendAlert
\* return false when the client is not ready.
DiscordReplies == IF isReady THEN BOOLEAN ELSE {FALSE}

Log(c, op, id, outcome) == Append(c.io, <<op, id, outcome>>)
BoolStr(b) == IF b THEN "true" ELSE "false"

\* ------------------------------------------------------------ ends of a cycle
\* The cycle goes on with the locals c1; nothing else changes.
Continue(s, c1) ==
    /\ cycles' = [cycles EXCEPT ![s] = c1]
    /\ UNCHANGED <<consecutiveFailures, alertSent>>

\* part_000 lines 89-94, 106-111, 138-143: poll() returns success, and the
\* legacy process() projects it.
PollReturns(c1, rs) ==
    LET p == [success |-> TRUE, tweetsFound |-> Len(c1.allTweets),
              tweetsProcessed |-> CountOf(rs, DbSaved),
              results |-> rs, error |-> "none"]
    IN  [c1 EXCEPT !.pollResult = p, !.result = processLegacy(p),
                   !.pc = "returned"]

\* part_001 lines 79-82 and 92-95 / part_000 lines 87-95 and 104-112:
\* return before any dispatch.
EarlyReturn(s, c1) ==
    /\ cycles' = [cycles EXCEPT ![s] =
          IF svc = "streak"
          THEN [c1 EXCEPT !.pc = "returned", !.early = TRUE]
          ELSE [PollReturns(c1, <<>>) EXCEPT !.early = TRUE]]
    /\ UNCHANGED <<consecutiveFailures, alertSent>>

CompleteKeepsStreak(s, c1) ==
    /\ cycles' = [cycles EXCEPT ![s] =
          IF svc = "streak" THEN [c1 EXCEPT !.pc = "returned"]
          ELSE PollReturns(c1, c1.results)]
    /\ UNCHANGED <<consecutiveFailures, alertSent>>
\* part_001 lines 131-143 / part_000 lines 132-143: the dispatch loop is over.
Complete(s, c1) ==
    IF svc = "streak"
    THEN /\ cycles' = [cycles EXCEPT ![s] = [c1 EXCEPT !.pc = "returned"]]
         /\ IF consecutiveFailures > 0
            THEN consecutiveFailures' = 0 /\ alertSent' = FALSE
            ELSE UNCHANGED <<consecutiveFailures, alertSent>>
    ELSE /\ cycles' = [cycles EXCEPT ![s] = PollReturns(c1, c1.results)]
         /\ UNCHANGED <<consecutiveFailures, alertSent>>

\* part_001 lines 144-162 / part_000 lines 144-155: err was thrown inside
\* the try block.
Abort(s, c1, err) ==
    IF svc = "streak"
    THEN IF ProcessCatches(err)
         THEN LET n == TrackFailure(consecutiveFailures) IN
              /\ consecutiveFailures' = n
              /\ UNCHANGED alertSent
              /\ cycles' = [cycles EXCEPT ![s] =
                    [c1 EXCEPT !.result.errors = Append(@, <<err, 0>>),
                               !.aborted = TRUE,
                               !.pc = IF ShouldAlert(n, alertSent)
                                      THEN "streakAlert" ELSE "returned"]]
         ELSE /\ cycles' = [cycles EXCEPT ![s] =
                    [c1 EXCEPT !.threw = TRUE, !.pc = "returned"]]
              /\ UNCHANGED <<consecutiveFailures, alertSent>>
    ELSE /\ UNCHANGED <<consecutiveFailures, alertSent>>
         /\ IF PollCatches(err)
            THEN LET p == [success |-> FALSE, tweetsFound |-> 0,
                           tweetsProcessed |-> 0, results |-> <<>>,
                           error |-> err]
                 IN  cycles' = [cycles EXCEPT ![s] =
                        [c1 EXCEPT !.pollResult = p,
                                   !.result = processLegacy(p),
                                   !.aborted = TRUE, !.pc = "returned"]]
            ELSE cycles' = [cycles EXCEPT ![s] =
                        [c1 EXCEPT !.threw = TRUE, !.pc = "returned"]]

HasNextUnlessFailed(c1) ==
    /\ c1.i < Len(c1.queue)
    /\ (c1.telegramSuccess \/ c1.discordSuccess)
\* part_001 line 126 / part_000 line 122: for (const tweet of newTweets),
\* whatever the outcome of the tweet before.
HasNext(c1) == c1.i < Len(c1.queue)

\* The end of processSingleTweet (part_001 lines 253-254, 117-118, 126-128)
\* or of processTweet (part_000 lines 122-130, 195-212): c1 holds the
\* outcome of the tweet queue[i]; go to the next tweet or finish the loop.
NextTweet(s, c1, saved, skip) ==
    LET id == c1.queue[c1.i]
        c2 == IF svc = "streak" THEN c1
              ELSE [c1 EXCEPT !.results = Append(@,
                       TweetResult(id, c1.telegramSuccess,
                                   c1.discordSuccess, saved, skip))]
        c3 == [c2 EXCEPT !.telegramSuccess = FALSE,
                         !.discordSuccess = FALSE]
    IN  IF HasNext(c1)
        THEN Continue(s, [c3 EXCEPT !.i = @ + 1,
                 !.pc = IF svc = "streak" THEN "telegram" ELSE "exists"])
        ELSE Complete(s, IF svc = "streak" /\ c3.single
                         THEN [c3 EXCEPT !.result.newTweets = 1] ELSE c3)

\* ------------------------------------------------------------ the scheduler
IsFree(s) ==
    /\ cycles[s].pc = "idle"
    /\ \A t \in Slots : t < s => cycles[t].pc # "idle"

\* index.ts lines 127-130: runProcessingCycle passes its guard and calls
\* relayService.process().
Enter(s) ==
    /\ isProcessing' = TRUE
    /\ cycles' = [cycles EXCEPT ![s] =
          [IdleCycle EXCEPT !.pc = "fetch", !.cf0 = consecutiveFailures,
                            !.sent0 = alertSent]]

\* index.ts lines 76-78: main() runs one cycle before it schedules the cron.
Main ==
    /\ phase = "startup"
    /\ phase' = "startupCycle"
    /\ IF Skip(isProcessing)
       THEN UNCHANGED <<isProcessing, cycles>>
       ELSE \E s \in Slots : IsFree(s) /\ Enter(s)
    /\ UNCHANGED <<svc, harness, shutdownVars,
                   cronLog, tweets_processed, published_at, consecutiveFailures,
                   alertSent, crashed, prev>>

\* index.ts lines 89-95 and 118-127: the cron callback (main() has gone on
\* past the startup cycle).
CronFire ==
    /\ phase = "scheduled"
    /\ IF isShuttingDown
       THEN UNCHANGED <<cronLog, isProcessing, cycles>>
       ELSE IF Skip(isProcessing)
       THEN /\ cronLog' = "skipped"
            /\ UNCHANGED <<isProcessing, cycles>>
       ELSE /\ cronLog' = "ran"
            /\ \E s \in Slots : IsFree(s) /\ Enter(s)
    /\ UNCHANGED <<svc, harness, shutdownVars,
                   phase, tweets_processed, published_at, consecutiveFailures,
                   alertSent, crashed, prev>>

\* ------------------------------------------------------------ the cycle
\* part_001 lines 70-82 / part_000 lines 79-95: fetchRSS, parse, toTweets.
Fetch(s) ==
    LET c == cycles[s] IN
    /\ c.pc = "fetch"
    /\ \E out \in {"ok", "fetch", "parse"}, feed \in Feeds :
          LET c1 == [c EXCEPT !.io = Log(c, "fetchRSS", 0, out)] IN
          IF out = "ok"
          THEN LET allTweets == toTweets(feed)
                   c2 == [c1 EXCEPT !.allTweets = allTweets,
                             !.result.totalFetched =
                                 IF svc = "streak" THEN Len(allTweets) ELSE @]
               IN  IF IsEmptyFeed(allTweets)
                   THEN EarlyReturn(s, c2)
                   ELSE Continue(s, [c2 EXCEPT !.pc = "filter"])
          ELSE /\ feed = <<>>
               /\ MayFail
               /\ Abort(s, c1, out)
    /\ UNCHANGED <<svc, harness, shutdownVars,
                   phase, isProcessing, cronLog, tweets_processed, published_at,
                   crashed, prev>>

\* part_001 lines 86-129 / part_000 lines 99-117: the bulk existence check
\* and the choice of the branch.
Filter(s) ==
    LET c == cycles[s] IN
    /\ c.pc = "filter"
    /\ \E out \in QueryOutcomes("dbread") :
          LET c1 == [c EXCEPT !.io = Log(c, "filterExisting", 0, out)] IN
          IF out = "ok"
          THEN LET existingIds ==
                       filterExisting(tweets_processed, Range(c.allTweets))
                   newTweets == NewTweets(c.allTweets, existingIds)
                   c2 == [c1 EXCEPT
                             !.existingIds = existingIds,
                             !.newTweets = newTweets,
                             !.storeAtCheck =
                                 {id \in Ids : tweets_processed[id] > 0},
                             !.result.newTweets =
                                 IF svc = "streak" THEN Len(newTweets) ELSE @]
               IN  IF Len(newTweets) = 0
                   THEN EarlyReturn(s, c2)
                   ELSE IF svc = "poll"
                   THEN Continue(s, [c2 EXCEPT !.queue = newTweets, !.i = 1,
                                               !.pc = "exists"])
                   ELSE IF /\ IsFirstRun(existingIds, newTweets,
                                         c2.result.totalFetched)
                           /\ Len(newTweets) > 1
                   THEN Continue(s, [c2 EXCEPT
                                        !.queue = OlderTweets(newTweets),
                                        !.i = 1, !.pc = "backfill"])
                   ELSE Continue(s, [c2 EXCEPT !.queue = newTweets, !.i = 1,
                                               !.pc = "telegram"])
          ELSE /\ MayFail
               /\ Abort(s, c1, out)
    /\ UNCHANGED <<svc, harness, shutdownVars,
                   phase, isProcessing, cronLog, tweets_processed, published_at,
                   crashed, prev>>

\* part_001 lines 110-117: the first run marks the older tweets, one
\* markAsProcessed per step, outside any local try.
Backfill(s) ==
    LET c == cycles[s]
        id == c.queue[c.i]
    IN
    /\ c.pc = "backfill"
    /\ \E out \in QueryOutcomes("dbwrite") :
          IF out = "ok"
          THEN LET c1 == [c EXCEPT !.io = Log(c, "markAsProcessed", id,
                              BoolStr(Inserted(tweets_processed, id)))]
               IN
               /\ tweets_processed' = markAsProcessed(tweets_processed, id)
               /\ published_at' = publishedAtAfter(published_at,
                                     tweets_processed, id, PublishedAt[id])
               /\ IF c.i < Len(c.queue)
                  THEN Continue(s, [c1 EXCEPT !.i = @ + 1])
                  ELSE Continue(s, [c1 EXCEPT
                           !.queue = <<LatestTweet(c.newTweets)>>,
                           !.i = 1, !.single = TRUE, !.pc = "telegram"])
          ELSE /\ MayFail
               /\ UNCHANGED <<tweets_processed, published_at>>
               /\ Abort(s, [c EXCEPT !.io =
                               Log(c, "markAsProcessed", id, "throw")], out)
    /\ UNCHANGED <<svc, harness, shutdownVars,
                   phase, isProcessing, cronLog, crashed, prev>>

\* part_000 lines 165-176: the recheck before sending.
Exists(s) ==
    LET c == cycles[s]
        id == c.queue[c.i]
    IN
    /\ c.pc = "exists"
    /\ \E out \in QueryOutcomes("dbread") :
          IF out = "ok"
          THEN LET found == exists(tweets_processed, id)
                   c1 == [c EXCEPT !.io = Log(c, "exists", id, BoolStr(found))]
               IN  IF found
                   THEN NextTweet(s, c1, FALSE, TRUE)
                   ELSE Continue(s, [c1 EXCEPT !.pc = "telegram"])
          ELSE /\ MayFail
               /\ Abort(s, [c EXCEPT !.io = Log(c, "exists", id, "throw")], out)
    /\ UNCHANGED <<svc, harness, shutdownVars,
                   phase, isProcessing, cronLog, tweets_processed, published_at,
                   crashed, prev>>

\* part_001 lines 207-221 / part_000 line 179: telegramClient.sendTweet,
\* which returns true or false (part_002 lines 37-52).
Telegram(s) ==
    LET c == cycles[s]
        id == c.queue[c.i]
    IN
    /\ c.pc = "telegram"
    /\ \E ok \in BOOLEAN :
          LET c1 == [c EXCEPT
                       !.io = Log(c, "telegram.sendTweet", id, BoolStr(ok)),
                       !.telegramSuccess = ok, !.pc = "discord"]
          IN  Continue(s,
                 IF svc = "poll" THEN c1
                 ELSE IF ok
                 THEN [c1 EXCEPT !.result.telegramSuccess = @ + 1]
                 ELSE [c1 EXCEPT !.result.telegramFailed = @ + 1,
                          !.result.errors =
                              Append(@, <<"Telegram send failed", id>>)])
    /\ UNCHANGED <<svc, harness, shutdownVars,
                   phase, isProcessing, cronLog, tweets_processed, published_at,
                   crashed, prev>>

DiscordCountsSuccessOnly(s) ==
    LET c == cycles[s]
        id == c.queue[c.i]
    IN
    /\ c.pc = "discord"
    /\ \E ok \in DiscordReplies :
          LET c1 == [c EXCEPT
                       !.io = Log(c, "discord.sendTweet", id, BoolStr(ok)),
                       !.discordSuccess = ok]
              c2 == IF svc = "streak" /\ ok
                    THEN [c1 EXCEPT !.result.discordSuccess = @ + 1]
                    ELSE c1
          IN  IF ShouldMark(c.telegramSuccess, ok)
              THEN Continue(s, [c2 EXCEPT !.pc = "mark"])
              ELSE NextTweet(s, c2, FALSE, FALSE)
    /\ UNCHANGED <<svc, harness, shutdownVars,
                   phase, isProcessing, cronLog, tweets_processed, published_at,
                   crashed, prev>>
\* part_001 lines 223-241 / part_000 lines 182-187: discordClient.sendTweet,
\* which returns true or false (discord-client.ts lines 143-161), and the
\* test that guards the mark.
Discord(s) ==
    LET c == cycles[s]
        id == c.queue[c.i]
    IN
    /\ c.pc = "discord"
    /\ \E ok \in DiscordReplies :
          LET c1 == [c EXCEPT
                       !.io = Log(c, "discord.sendTweet", id, BoolStr(ok)),
                       !.discordSuccess = ok]
              c2 == IF svc = "poll" THEN c1
                    ELSE IF ok
                    THEN [c1 EXCEPT !.result.discordSuccess = @ + 1]
                    ELSE [c1 EXCEPT !.result.discordFailed = @ + 1,
                             !.result.errors =
                                 Append(@, <<"Discord send failed", id>>)]
          IN  IF ShouldMark(c.telegramSuccess, ok)
              THEN Continue(s, [c2 EXCEPT !.pc = "mark"])
              ELSE NextTweet(s, c2, FALSE, FALSE)
    /\ UNCHANGED <<svc, harness, shutdownVars,
                   phase, isProcessing, cronLog, tweets_processed, published_at,
                   crashed, prev>>

\* part_001 lines 242-251 / part_000 lines 188-192: markAsProcessed inside
\* its own try.
Mark(s) ==
    LET c == cycles[s]
        id == c.queue[c.i]
    IN
    /\ c.pc = "mark"
    /\ \E out \in QueryOutcomes("dbwrite") :
          IF out = "ok"
          THEN LET saved == Inserted(tweets_processed, id) IN
               /\ tweets_processed' = markAsProcessed(tweets_processed, id)
               /\ published_at' = publishedAtAfter(published_at,
                                     tweets_processed, id, PublishedAt[id])
               /\ NextTweet(s, [c EXCEPT !.io =
                      Log(c, "markAsProcessed", id, BoolStr(saved))],
                      saved, FALSE)
          ELSE /\ UNCHANGED <<tweets_processed, published_at>>
               /\ NextTweet(s,
                     [c EXCEPT
                        !.io = Log(c, "markAsProcessed", id, "throw"),
                        !.result.errors =
                            IF svc = "streak"
                            THEN Append(@, <<"DB error", id>>) ELSE @],
                     FALSE, FALSE)
    /\ UNCHANGED <<svc, harness, shutdownVars,
                   phase, isProcessing, cronLog, crashed, prev>>

\* part_001 lines 156-159 and 168-193: the streak alert; sendAlert returns
\* true or false (discord-client.ts lines 199-236).
StreakAlert(s) ==
    LET c == cycles[s] IN
    /\ c.pc = "streakAlert"
    /\ \E ok \in DiscordReplies :
          /\ cycles' = [cycles EXCEPT ![s] =
                [c EXCEPT !.io = Log(c, "streakAlert", 0, BoolStr(ok)),
                          !.pc = "returned"]]
          /\ alertSent' = AlertSentAfter(ok)
    /\ UNCHANGED <<svc, harness, shutdownVars,
                   phase, isProcessing, cronLog, tweets_processed, published_at,
                   consecutiveFailures, crashed, prev>>

CallerAlertThrottled(s) ==
    LET c == cycles[s]
        alert == (c.threw \/ Len(c.result.errors) > 0) /\ ~alertSent
    IN
    /\ c.pc = "returned"
    /\ \E ok \in DiscordReplies :
          cycles' = [cycles EXCEPT ![s] =
              [c EXCEPT !.io = IF alert
                               THEN Log(c, "callerAlert", 0, BoolStr(ok))
                               ELSE @,
                        !.pc = "finally"]]
    /\ UNCHANGED <<svc, harness, shutdownVars,
                   phase, isProcessing, cronLog, tweets_processed, published_at,
                   consecutiveFailures, alertSent, crashed, prev>>
\* index.ts lines 130-162: process() has returned or thrown; the caller
\* sends its own alert when there are errors.
CallerAlert(s) ==
    LET c == cycles[s] IN
    /\ c.pc = "returned"
    /\ \E ok \in BOOLEAN :
          IF c.threw
          THEN IF RunCycleCatches("thrown")
               THEN /\ ok \in DiscordReplies
                    /\ cycles' = [cycles EXCEPT ![s] =
                          [c EXCEPT !.io = Log(c, "callerAlert", 0, BoolStr(ok)),
                                    !.pc = "finally"]]
                    /\ UNCHANGED crashed
               ELSE /\ ok
                    /\ cycles' = [cycles EXCEPT ![s] = [c EXCEPT !.pc = "finally"]]
                    /\ crashed' = TRUE
          ELSE /\ UNCHANGED crashed
               /\ IF Len(c.result.errors) > 0
                  THEN /\ ok \in DiscordReplies
                       /\ cycles' = [cycles EXCEPT ![s] =
                             [c EXCEPT
                                !.io = Log(c, "callerAlert", 0, BoolStr(ok)),
                                !.pc = "finally"]]
                  ELSE /\ ok
                       /\ cycles' = [cycles EXCEPT ![s] =
                             [c EXCEPT !.pc = "finally"]]
    /\ UNCHANGED <<svc, harness, shutdownVars,
                   phase, isProcessing, cronLog, tweets_processed, published_at,
                   consecutiveFailures, alertSent, prev>>

\* The tweets of a cycle for which both sends returned false.
FailedBoth(c) ==
    {id \in Ids : /\ <<"telegram.sendTweet", id, "false">> \in Range(c.io)
                  /\ <<"discord.sendTweet", id, "false">> \in Range(c.io)}

FinishKeepsGuard(s) ==
    LET c == cycles[s] IN
    /\ c.pc = "finally"
    /\ cycles' = [cycles EXCEPT ![s] = IdleCycle]
    /\ phase' = IF phase = "startupCycle" THEN "scheduled" ELSE phase
    /\ prev' = IF FailedBoth(c) = {} THEN NoPrev
               ELSE [all |-> c.allTweets, failedBoth |-> FailedBoth(c)]
    /\ UNCHANGED <<svc, harness, shutdownVars, isProcessing,
                   cronLog, tweets_processed, published_at, consecutiveFailures,
                   alertSent, crashed>>
\* index.ts lines 163-165: finally.
Finish(s) ==
    LET c == cycles[s] IN
    /\ c.pc = "finally"
    /\ isProcessing' = FALSE
    /\ cycles' = [cycles EXCEPT ![s] = IdleCycle]
    /\ phase' = IF phase = "startupCycle" THEN "scheduled" ELSE phase
    /\ prev' = IF FailedBoth(c) = {} THEN NoPrev
               ELSE [all |-> c.allTweets, failedBoth |-> FailedBoth(c)]
    /\ UNCHANGED <<svc, harness, shutdownVars,
                   cronLog, tweets_processed, published_at, consecutiveFailures,
                   alertSent, crashed>>

Next ==
    \/ Main
    \/ CronFire
    \/ \E s \in Slots : Fetch(s)
    \/ \E s \in Slots : Filter(s)
    \/ \E s \in Slots : Backfill(s)
    \/ \E s \in Slots : Exists(s)
    \/ \E s \in Slots : Telegram(s)
    \/ \E s \in Slots : Discord(s)
    \/ \E s \in Slots : Mark(s)
    \/ \E s \in Slots : StreakAlert(s)
    \/ \E s \in Slots : CallerAlert(s)
    \/ \E s \in Slots : Finish(s)

Spec == Init /\ [][Next]_vars

\* ------------------------------------------------------------ calls that return
\* A step of a cycle in flight: an awaited call returns and the code after
\* it runs.
CycleStep ==
    \E s \in Slots :
        \/ Fetch(s) \/ Filter(s) \/ Backfill(s) \/ Exists(s)
        \/ Telegram(s) \/ Discord(s) \/ Mark(s)
        \/ StreakAlert(s) \/ CallerAlert(s) \/ Finish(s)

\* Every awaited call of a cycle returns or throws in the end: the HTTP
\* calls have timeouts and the event loop resumes the cycle.
SpecLive == Init /\ [][Next]_vars /\ WF_vars(CycleStep)

\* ------------------------------------------------------------ a feed that stays
\* The historical posts of the feed: all of Ids, N = 3.
HistoricalFeed == <<1, 2, 3>>

\* nitter-client.ts lines 53-103: every fetch that succeeds returns the same
\* document.
FixedFeed(s) ==
    cycles'[s].io[1] = <<"fetchRSS", 0, "ok">> =>
        cycles'[s].allTweets = toTweets(HistoricalFeed)

\* The program on a feed that does not change.
NextFixedFeed ==
    \/ Main
    \/ CronFire
    \/ \E s \in Slots : Fetch(s) /\ FixedFeed(s)
    \/ \E s \in Slots : Filter(s)
    \/ \E s \in Slots : Backfill(s)
    \/ \E s \in Slots : Exists(s)
    \/ \E s \in Slots : Telegram(s)
    \/ \E s \in Slots : Discord(s)
    \/ \E s \in Slots : Mark(s)
    \/ \E s \in Slots : StreakAlert(s)
    \/ \E s \in Slots : CallerAlert(s)
    \/ \E s \in Slots : Finish(s)

SpecFixedFeed == Init /\ [][NextFixedFeed]_vars

\* ------------------------------------------------------------ a post that stays
\* The post that stays in the feed.
Post == 1

\* nitter-client.ts lines 53-103: every document fetched holds the post;
\* the rest of the feed comes and goes.
FeedKeeps(s) ==
    cycles'[s].io[1] = <<"fetchRSS", 0, "ok">> =>
        Post \in Range(cycles'[s].allTweets)

\* The call of the step succeeded: the fetch or the read returned, the send
\* was accepted, the write inserted the row.
Good(s) ==
    LET io == cycles'[s].io IN
    /\ Len(io) > Len(cycles[s].io)
    /\ io[Len(io)][3] \in {"ok", "true"}

FetchStep == \E s \in Slots : Fetch(s) /\ FeedKeeps(s)
FilterStep == \E s \in Slots : Filter(s)
BackfillStep == \E s \in Slots : Backfill(s)
TelegramStep == \E s \in Slots : Telegram(s)
MarkStep == \E s \in Slots : Mark(s)
\* Telegram accepts the post that stays.
TelegramTakesPost ==
    \E s \in Slots :
        /\ cycles[s].pc = "telegram"
        /\ cycles[s].queue[cycles[s].i] = Post
        /\ Telegram(s) /\ Good(s)

\* The program on a feed that keeps the post.
NextRetry ==
    \/ Main
    \/ CronFire
    \/ FetchStep
    \/ FilterStep
    \/ BackfillStep
    \/ \E s \in Slots : Exists(s)
    \/ TelegramStep
    \/ \E s \in Slots : Discord(s)
    \/ MarkStep
    \/ \E s \in Slots : StreakAlert(s)
    \/ \E s \in Slots : CallerAlert(s)
    \/ \E s \in Slots : Finish(s)

\* The cron keeps firing and every awaited call returns (node-cron and the
\* event loop); the fetch, the store and Telegram are not down for ever:
\* a call that is made again and again succeeds again and again.
SpecRetry ==
    /\ Init /\ [][NextRetry]_vars
    /\ WF_vars(NextRetry)
    /\ SF_vars(\E s \in Slots : Fetch(s) /\ FeedKeeps(s) /\ Good(s))
    /\ SF_vars(\E s \in Slots : Filter(s) /\ Good(s))
    /\ SF_vars(\E s \in Slots : Backfill(s) /\ Good(s))
    /\ SF_vars(TelegramTakesPost)
    /\ SF_vars(\E s \in Slots : Mark(s) /\ Good(s))

\* ------------------------------------------------------------ without the guard
\* part_000 lines 79 and 225: poll() and process() have no guard of their
\* own; a caller that does not test isProcessing (index.ts lines 122-127)
\* starts a cycle while another is in flight, up to MaxSlots at once.
CronFireNoGuard ==
    /\ phase = "scheduled"
    /\ cronLog' = "ran"
    /\ \E s \in Slots : IsFree(s) /\ Enter(s)
    /\ UNCHANGED <<svc, harness, shutdownVars, phase, tweets_processed,
                   published_at, consecutiveFailures, alertSent, crashed,
                   prev>>

\* nitter-client.ts lines 53-103: every fetch that succeeds returns the
\* document that holds the one post.
SameFeed(s) ==
    cycles'[s].io[1] = <<"fetchRSS", 0, "ok">> =>
        cycles'[s].allTweets = toTweets(<<Post>>)

\* Cycles running at once over the same feed and store.
NextNoGuard ==
    \/ Main
    \/ CronFireNoGuard
    \/ \E s \in Slots : Fetch(s) /\ SameFeed(s)
    \/ \E s \in Slots : Filter(s)
    \/ \E s \in Slots : Exists(s)
    \/ \E s \in Slots : Telegram(s)
    \/ \E s \in Slots : Discord(s)
    \/ \E s \in Slots : Mark(s)
    \/ \E s \in Slots : StreakAlert(s)
    \/ \E s \in Slots : CallerAlert(s)
    \/ \E s \in Slots : Finish(s)

SpecNoGuard == Init /\ [][NextNoGuard]_vars

\* ------------------------------------------------------------ a sink that is down
\* discord-client.ts lines 143-161: every sendTweet of the Discord sink
\* returns false.
DiscordDown(s) ==
    cycles'[s].io[Len(cycles'[s].io)] = <<"discord.sendTweet", Post, "false">>

\* The program on the feed of the one post while Discord refuses every
\* post: a row of the store is that of a post Telegram took and Discord
\* refused.
NextSinkDown ==
    \/ Main
    \/ CronFire
    \/ \E s \in Slots : Fetch(s) /\ SameFeed(s)
    \/ \E s \in Slots : Filter(s)
    \/ \E s \in Slots : Exists(s)
    \/ \E s \in Slots : Telegram(s)
    \/ \E s \in Slots : Discord(s) /\ DiscordDown(s)
    \/ \E s \in Slots : Mark(s)
    \/ \E s \in Slots : StreakAlert(s)
    \/ \E s \in Slots : CallerAlert(s)
    \/ \E s \in Slots : Finish(s)

SpecSinkDown == Init /\ [][NextSinkDown]_vars

\* ------------------------------------------------------------ shutdown
\* index.ts lines 232-234 and discord-client.ts lines 241-245: cleanup calls
\* discordClient.close(), which clears isReady and awaits destroy().
CloseDiscord ==
    /\ isReady' = FALSE
    /\ cleanupPc' = "discordDestroy"

\* index.ts lines 172-180 and 203-214: SIGTERM or SIGINT reaches the
\* handler, installed once the cron is scheduled; shutdown() sets the flag
\* and cleanup() stops the task and runs up to its first await.
Signal ==
    /\ phase = "scheduled"
    /\ ~isShuttingDown
    /\ isShuttingDown' = TRUE
    /\ IF MustWait(isProcessing)
       THEN cleanupPc' = "wait" /\ UNCHANGED isReady
       ELSE CloseDiscord
    /\ UNCHANGED <<svc, harness, phase, isProcessing, cronLog,
                   tweets_processed, published_at, consecutiveFailures,
                   alertSent, cycles, crashed, prev, elapsed,
                   dbIsShuttingDown>>

\* index.ts lines 218-224: one turn of the wait loop, or its end.
Wait ==
    /\ cleanupPc = "wait"
    /\ IF KeepWaiting(isProcessing, elapsed)
       THEN elapsed' = elapsed + 1 /\ UNCHANGED <<cleanupPc, isReady>>
       ELSE CloseDiscord /\ UNCHANGED elapsed
    /\ UNCHANGED <<svc, harness, phase, isProcessing, cronLog,
                   tweets_processed, published_at, consecutiveFailures,
                   alertSent, cycles, crashed, prev, isShuttingDown,
                   dbIsShuttingDown>>

\* index.ts lines 236-238 and database.ts lines 101-104: destroy() is over;
\* cleanup calls databaseService.close(), which sets its flag and awaits
\* pool.end().
DiscordClosed ==
    /\ cleanupPc = "discordDestroy"
    /\ dbIsShuttingDown' = TRUE
    /\ cleanupPc' = "poolEnd"
    /\ UNCHANGED <<svc, harness, phase, isProcessing, cronLog,
                   tweets_processed, published_at, consecutiveFailures,
                   alertSent, cycles, crashed, prev, isShuttingDown,
                   elapsed, isReady>>

\* index.ts lines 181-182: cleanup is over, process.exit(0).
PoolEnded ==
    /\ cleanupPc = "poolEnd"
    /\ cleanupPc' = "exited"
    /\ UNCHANGED <<svc, harness, phase, isProcessing, cronLog,
                   tweets_processed, published_at, consecutiveFailures,
                   alertSent, cycles, crashed, prev, isShuttingDown,
                   elapsed, isReady, dbIsShuttingDown>>

\* The program with its shutdown handlers; nothing runs after the exit.
NextShutdown ==
    \/ cleanupPc # "exited" /\ Next
    \/ Signal
    \/ Wait
    \/ DiscordClosed
    \/ PoolEnded

\* The timer of the wait loop always fires; nothing makes a cycle go on.
SpecShutdown == Init /\ [][NextShutdown]_vars /\ WF_vars(Wait)

\* ------------------------------------------------------------ the repository alone
\* tweet-repository.ts lines 55-78: one call markAsProcessed(id, p) on the
\* table as it stands, up to MaxCalls calls for each id.
RepoMark(id, p) ==
    /\ calls[id] < MaxCalls
    /\ calls' = [calls EXCEPT ![id] = @ + 1]
    /\ returned' = [id |-> id, publishedAt |-> p,
                    value |-> Inserted(tweets_processed, id)]
    /\ tweets_processed' = markAsProcessed(tweets_processed, id)
    /\ published_at' = publishedAtAfter(published_at, tweets_processed, id, p)
    /\ UNCHANGED <<svc, shutdownVars, phase, isProcessing, cronLog,
                   consecutiveFailures, alertSent, cycles, crashed, prev,
                   input, output>>

NextRepo == \E id \in Ids, p \in Range(PublishedAt) : RepoMark(id, p)

SpecRepo == Init /\ [][NextRepo]_vars

\* ------------------------------------------------------------ process() alone
\* The outcomes processTweet can return (part_000 lines 162-213): skipped
\* with every flag false, or the two sends' outcomes, saved only if one of
\* them succeeded.
Outcomes ==
    {TweetResult(id, FALSE, FALSE, FALSE, TRUE) : id \in Ids} \cup
    {TweetResult(x[1], x[2], x[3], x[4], FALSE) :
        x \in {y \in Ids \X BOOLEAN \X BOOLEAN \X BOOLEAN :
                  y[4] => ShouldMark(y[2], y[3])}}

SeqsUpTo(S, n) == UNION {[1..k -> S] : k \in 0..n}

\* The results poll() can return (part_000 lines 89-94, 106-111, 138-155):
\* success with the outcomes of the loop, or a failure with none.
PollResults ==
    {[success |-> TRUE, tweetsFound |-> Len(rs) + extra,
      tweetsProcessed |-> CountOf(rs, DbSaved), results |-> rs,
      error |-> "none"] :
        rs \in SeqsUpTo(Outcomes, MaxResults), extra \in 0..1} \cup
    {[success |-> FALSE, tweetsFound |-> 0, tweetsProcessed |-> 0,
      results |-> <<>>, error |-> err] : err \in {"fetch", "parse", "dbread"}}

\* part_000 lines 225-249: process() on the result p of poll().
Process ==
    /\ input.op = "none"
    /\ \E p \in PollResults :
          /\ input' = [op |-> "process", poll |-> p]
          /\ output' = [op |-> "process", result |-> processLegacy(p)]
    /\ UNCHANGED <<svc, shutdownVars, phase, isProcessing, cronLog,
                   tweets_processed, published_at, consecutiveFailures,
                   alertSent, cycles, crashed, prev, calls, returned>>

NextLegacy == Process

SpecLegacy == Init /\ [][NextLegacy]_vars

\* ------------------------------------------------------------ fetchRSS alone
\* The bodies a response carries: none, blank ones and documents.
Bodies == {<<>>, <<" ">>, <<" ", " ">>, <<"R">>, <<" ", "R", " ">>}
\* What one client.get() does: a response of status 200 with a body, or an
\* AxiosError with the response's status (0: no response, a network error
\* or the 30 s timeout).
HttpReplies ==
    [status : {200}, data : Bodies] \cup
    [status : {0, 404, 429, 500}, data : {<<>>}]

\* nitter-client.ts line 65: !response.data || response.data.trim().length === 0
IsEmptyBody(data) == data = <<>> \/ Len(trimEnd(trimStart(data))) = 0

\* The attempt ends in the catch block: axios rejected, or the body was
\* empty and line 66 threw.
AttemptFails(r) == r.status # 200 \/ IsEmptyBody(r.data)

isRetryableAlways(r) == TRUE
\* nitter-client.ts lines 127-147: an AxiosError without a response, with a
\* 5xx status or with 429; the Error of line 66 is no AxiosError.
isRetryableError(r) ==
    /\ r.status # 200
    /\ \/ r.status = 0
       \/ r.status >= 500 /\ r.status < 600
       \/ r.status = 429

\* nitter-client.ts lines 53-57: fetchRSS() is called; the loop is entered
\* when 1 <= maxRetries, else line 100 throws.
FetchRSSCall ==
    /\ input.op = "none"
    /\ \E m \in 0..MaxRetries :
          /\ input' = [op |-> "fetchRSS", maxRetries |-> m, attempt |-> 1,
                       replies |-> <<>>]
          /\ output' = IF 1 <= m THEN [op |-> "running"]
                       ELSE [op |-> "threw"]
    /\ UNCHANGED <<svc, shutdownVars, phase, isProcessing, cronLog,
                   tweets_processed, published_at, consecutiveFailures,
                   alertSent, cycles, crashed, prev, calls, returned>>

\* nitter-client.ts lines 58-98: one turn of the loop, from client.get() to
\* the return, to the break and the throw of line 100, or through the
\* sleep to the next turn.
FetchRSSAttempt ==
    /\ input.op = "fetchRSS" /\ output.op = "running"
    /\ \E r \in HttpReplies :
          LET replies == Append(input.replies, r)
              isLastAttempt == input.attempt = input.maxRetries
          IN  IF ~AttemptFails(r)
              THEN /\ input' = [input EXCEPT !.replies = replies]
                   /\ output' = [op |-> "returned", data |-> r.data]
              ELSE IF ~isRetryableError(r) \/ isLastAttempt
              THEN /\ input' = [input EXCEPT !.replies = replies]
                   /\ output' = [op |-> "threw"]
              ELSE /\ input' = [input EXCEPT !.replies = replies,
                                             !.attempt = @ + 1]
                   /\ output' = output
    /\ UNCHANGED <<svc, shutdownVars, phase, isProcessing, cronLog,
                   tweets_processed, published_at, consecutiveFailures,
                   alertSent, cycles, crashed, prev, calls, returned>>

NextFetch == FetchRSSCall \/ FetchRSSAttempt

\* Every client.get() settles: axios is created with timeout: 30000
\* (nitter-client.ts lines 40-47), and the sleep between attempts ends.
SpecFetch == Init /\ [][NextFetch]_vars /\ WF_vars(FetchRSSAttempt)

\* ------------------------------------------------------------ the sinks alone
NotReadyNever(ready) == FALSE
\* discord-client.ts lines 144 and 200: if (!this.isReady) return false.
NotReady(ready) == ~ready

\* discord-client.ts lines 157 and 232 / part_002 line 48: catch (err),
\* whatever was thrown.
SinkCatches(err) == TRUE

\* What a call of a sink came to: whether the client was ready when it
\* was called, whether the message was handed to the library, the value
\* returned, and whether an exception left the call.
SinkResult(op, ready, attempted, value, threw) ==
    [op |-> op, ready |-> ready, attempted |-> attempted, value |-> value,
     threw |-> threw]

\* The end of a try block of a sink: err is "none" or what was thrown at
\* the await; attempted tells whether send() was reached.
SinkReturns(op, attempted, err) ==
    IF err = "none" THEN SinkResult(op, isReady, attempted, TRUE, FALSE)
    ELSE IF SinkCatches(err)
    THEN SinkResult(op, isReady, attempted, FALSE, FALSE)
    ELSE SinkResult(op, isReady, attempted, FALSE, TRUE)

SinkFrame ==
    UNCHANGED <<svc, phase, isProcessing, cronLog, tweets_processed,
                published_at, consecutiveFailures, alertSent, cycles,
                crashed, prev, calls, returned, isShuttingDown, cleanupPc,
                elapsed, dbIsShuttingDown>>

\* discord-client.ts lines 22-31 and 66-83, index.ts lines 46-49: the
\* client is built and login() has returned: ready, the channel fetched.
\* alertChannelId is optional in the configuration.
SinkLogin ==
    /\ input.op = "none"
    /\ \E alertChannelId \in BOOLEAN :
          input' = [op |-> "sink", channel |-> "cached", closed |-> FALSE,
                    alertChannelId |-> alertChannelId, last |-> "ready"]
    /\ isReady' = TRUE
    /\ UNCHANGED output
    /\ SinkFrame

\* discord-client.ts lines 37-43: the 'ready' event; a destroyed client
\* does not log in again (login() is called once, index.ts line 49).
OnReady ==
    /\ input.op = "sink" /\ ~input.closed
    /\ isReady' = TRUE
    /\ input' = [input EXCEPT !.last = "ready"]
    /\ UNCHANGED output
    /\ SinkFrame

\* discord-client.ts lines 53-57: the 'disconnect' event.
OnDisconnect ==
    /\ input.op = "sink" /\ ~input.closed
    /\ isReady' = FALSE
    /\ input' = [input EXCEPT !.channel = "null", !.last = "disconnect"]
    /\ UNCHANGED output
    /\ SinkFrame

\* discord-client.ts lines 241-247: close().
SinkClose ==
    /\ input.op = "sink" /\ ~input.closed
    /\ isReady' = FALSE
    /\ input' = [input EXCEPT !.channel = "null", !.closed = TRUE,
                              !.last = "close"]
    /\ UNCHANGED output
    /\ SinkFrame

\* discord-client.ts lines 143-161 and 113-138: sendTweet, with
\* fetchChannel and channel.send each returning or throwing.
DiscordSendTweet ==
    /\ input.op = "sink"
    /\ \E fetchErr, sendErr \in {"none", "rejected"} :
          IF NotReady(isReady)
          THEN /\ output' = SinkResult("discord.sendTweet", isReady,
                                       FALSE, FALSE, FALSE)
               /\ UNCHANGED input
          ELSE IF input.channel = "null" /\ fetchErr # "none"
          THEN /\ output' = SinkReturns("discord.sendTweet", FALSE, fetchErr)
               /\ UNCHANGED input
          ELSE /\ output' = SinkReturns("discord.sendTweet", TRUE, sendErr)
               /\ input' = [input EXCEPT !.channel = "cached"]
    /\ UNCHANGED isReady
    /\ SinkFrame

\* discord-client.ts lines 199-236: sendAlert.
DiscordSendAlert ==
    /\ input.op = "sink"
    /\ \E fetchErr, sendErr \in {"none", "rejected"}, isText \in BOOLEAN :
          output' =
              IF NotReady(isReady) \/ ~input.alertChannelId
              THEN SinkResult("discord.sendAlert", isReady,
                              FALSE, FALSE, FALSE)
              ELSE IF fetchErr # "none"
              THEN SinkReturns("discord.sendAlert", FALSE, fetchErr)
              ELSE IF ~isText
              THEN SinkResult("discord.sendAlert", isReady,
                              FALSE, FALSE, FALSE)
              ELSE SinkReturns("discord.sendAlert", TRUE, sendErr)
    /\ UNCHANGED <<input, isReady>>
    /\ SinkFrame

\* part_002 lines 37-52: TelegramClient.sendTweet; formatMessage only
\* replaces characters in the tweet's strings.
TelegramSendTweet ==
    /\ input.op = "sink"
    /\ \E sendErr \in {"none", "rejected"} :
          output' = SinkReturns("telegram.sendTweet", TRUE, sendErr)
    /\ UNCHANGED <<input, isReady>>
    /\ SinkFrame

NextSink ==
    \/ SinkLogin
    \/ OnReady
    \/ OnDisconnect
    \/ SinkClose
    \/ DiscordSendTweet
    \/ DiscordSendAlert
    \/ TelegramSendTweet

SpecSink == Init /\ [][NextSink]_vars

\* ------------------------------------------------------------ toTweets alone
\* An ordinary tweet's item.
Plain(id) == [link |-> id, dateOk |-> TRUE, title |-> <<"T">>]

\* part_004 lines 125-140: toTweets on a parsed feed: any item, whatever
\* its link, date and title, alone (other = 0) or next to an ordinary one.
ToTweets ==
    /\ input.op = "none"
    /\ \E len \in 0..MaxText, link \in Ids \cup {0}, dateOk \in BOOLEAN,
          other \in Ids \cup {0}, first \in BOOLEAN :
          \E title \in [1..len -> Chars] :
             LET x == [link |-> link, dateOk |-> dateOk, title |-> title]
                 items == IF other = 0 THEN <<x>>
                          ELSE IF first THEN <<x, Plain(other)>>
                          ELSE <<Plain(other), x>>
             IN  /\ other # 0 => other # link
                 /\ other = 0 => first
                 /\ input' = [op |-> "toTweets", items |-> items]
                 /\ output' = [op |-> "toTweets",
                               tweets |-> toTweets(Converted(items))]
    /\ UNCHANGED <<svc, shutdownVars, phase, isProcessing, cronLog,
                   tweets_processed, published_at, consecutiveFailures,
                   alertSent, cycles, crashed, prev, calls, returned>>

NextParser == ToTweets

SpecParser == Init /\ [][NextParser]_vars

\* ------------------------------------------------------------ typing
TypeOK ==
    /\ svc \in {"streak", "poll"}
    /\ isProcessing \in BOOLEAN
    /\ consecutiveFailures \in 0..(MaxFailures + MaxSlots)
    /\ alertSent \in BOOLEAN
    /\ \A id \in Ids : tweets_processed[id] \in 0..1

\* ------------------------------------------------------------ history of a cycle
\* The events of a cycle's log: <<operation, tweet id, outcome>>.
SendOps == {"telegram.sendTweet", "discord.sendTweet"}
StoreOps == {"filterExisting", "exists", "markAsProcessed"}
Events(c, ops) == {k \in DOMAIN c.io : c.io[k][1] \in ops}
EventsFor(c, ops, id) == {k \in Events(c, ops) : c.io[k][2] = id}
SentIds(c) == {c.io[k][2] : k \in Events(c, SendOps)}
Filtered(c) == <<"filterExisting", 0, "ok">> \in Range(c.io)
InFlight == {s \in Slots : cycles[s].pc # "idle"}
\* The cycle's process() has returned a result to runProcessingCycle.
Returned(c) == c.pc = "returned" /\ ~c.threw

\* ------------------------------------------------------------ C1
\* C1: a tweet whose id is in the store when the cycle's bulk existence
\* check runs is sent to neither sink in that cycle, and no step sends a
\* tweet whose row is already in the table.
C1_Step ==
    \A s \in Slots : \A id \in Ids :
        Cardinality(EventsFor(cycles'[s], SendOps, id))
            > Cardinality(EventsFor(cycles[s], SendOps, id))
        => tweets_processed[id] = 0
C1_NoResend ==
    /\ [](\A s \in Slots : SentIds(cycles[s]) \cap cycles[s].storeAtCheck = {})
    /\ [][C1_Step]_vars
\* A cycle over a feed that holds an already recorded tweet has sent another.
C1_Witness ==
    \E s \in Slots :
        /\ Range(cycles[s].allTweets) \cap cycles[s].storeAtCheck # {}
        /\ SentIds(cycles[s]) # {}
        /\ cycles[s].pc = "returned"

\* ------------------------------------------------------------ C2
\* The tweets of q with the greatest publishedAt.
Newest(q) == {a \in Range(q) : \A b \in Range(q) : PublishedAt[a] >= PublishedAt[b]}
\* C2: a cycle of the first-run branch (empty store, N > 1 candidates, no
\* store or sink failure) sends exactly one tweet, the one with the
\* greatest publishedAt, and the other N-1 are in the store and unsent.
C2_FirstRunSendsNewest ==
    \A s \in Slots :
        LET c == cycles[s] IN
        (/\ svc = "streak" /\ Returned(c) /\ ~c.aborted
         /\ Filtered(c) /\ c.storeAtCheck = {} /\ Len(c.allTweets) > 1
         /\ \A k \in DOMAIN c.io : c.io[k][3] \notin {"false", "throw"})
        => /\ SentIds(c) = Newest(c.allTweets)
           /\ Cardinality(SentIds(c)) = 1
           /\ \A id \in Range(c.allTweets) \ SentIds(c) :
                 tweets_processed[id] > 0

\* ------------------------------------------------------------ C3
\* C3: after a cycle that no exception aborted, consecutiveFailures is 0
\* and alertSent is false, early returns included.
C3_ResetAfterCycle ==
    \A s \in Slots :
        (svc = "streak" /\ Returned(cycles[s]) /\ ~cycles[s].aborted)
        => consecutiveFailures = 0 /\ alertSent = FALSE

\* ------------------------------------------------------------ C4
StreakAlerts(c) == Cardinality(Events(c, {"streakAlert"}))
\* C4: with threshold 3 the third failed cycle in a row issues the one
\* streak alert, a further failed cycle issues none, and a later cycle that
\* is not aborted sets consecutiveFailures to 0 and alertSent to false.
C4_FailureStreak ==
    \A s \in Slots :
        LET c == cycles[s] IN
        (svc = "streak" /\ Returned(c)) =>
           /\ (c.aborted /\ c.cf0 = FAILURE_THRESHOLD - 1)
                 => StreakAlerts(c) = 1 /\ alertSent
           /\ (c.aborted /\ c.cf0 # FAILURE_THRESHOLD - 1)
                 => StreakAlerts(c) = 0
           /\ (~c.aborted /\ c.cf0 >= FAILURE_THRESHOLD)
                 => consecutiveFailures = 0 /\ alertSent = FALSE

\* ------------------------------------------------------------ C5
\* The previous cycle left tweets that both sinks refused, and this cycle
\* has run over the same feed to the end of its try block.
Retried(c) ==
    /\ Returned(c) /\ ~c.aborted
    /\ prev.failedBoth # {} /\ c.allTweets = prev.all
\* C5: a tweet for which both sends returned false gets no store write in
\* that cycle and has no row afterwards, and a next cycle over the same feed
\* that is not aborted finds it new and sends it again.
C5_TotalFailureNotRecorded ==
    \A s \in Slots :
        LET c == cycles[s] IN
        /\ \A id \in FailedBoth(c) :
              /\ EventsFor(c, {"markAsProcessed"}, id) = {}
              /\ tweets_processed[id] = 0
        /\ Retried(c) =>
              \A id \in prev.failedBoth :
                  /\ id \in Range(c.newTweets)
                  /\ EventsFor(c, {"telegram.sendTweet"}, id) # {}
                  /\ EventsFor(c, {"discord.sendTweet"}, id) # {}
\* Both sinks refused a tweet in one cycle and the next cycle, over the same
\* feed, has finished.
C5_Witness ==
    \E s \in Slots : Retried(cycles[s]) /\ FailedBoth(cycles[s]) = {}

\* ------------------------------------------------------------ C6
\* The entries of the cycle's error list that refer to the tweet id.
ErrorsFor(c, id) == {k \in DOMAIN c.result.errors : c.result.errors[k][2] = id}
\* Telegram returned true and Discord false for id, and its mark did not throw.
PartialFailure(c, id) ==
    /\ <<"telegram.sendTweet", id, "true">> \in Range(c.io)
    /\ <<"discord.sendTweet", id, "false">> \in Range(c.io)
    /\ <<"markAsProcessed", id, "throw">> \notin Range(c.io)
\* C6: when Telegram returns true and Discord false for a tweet,
\* markAsProcessed is called once for it and the returned error list holds
\* exactly one entry for it, which names Discord.
C6_PartialFailureRecorded ==
    \A s \in Slots :
        LET c == cycles[s] IN
        (Returned(c) /\ ~c.aborted) =>
            \A id \in Ids :
                PartialFailure(c, id) =>
                    /\ Cardinality(EventsFor(c, {"markAsProcessed"}, id)) = 1
                    /\ Cardinality(ErrorsFor(c, id)) = 1
                    /\ \A k \in ErrorsFor(c, id) :
                          c.result.errors[k][1] = "Discord send failed"

\* ------------------------------------------------------------ C7
\* C7: the tweets a cycle treats as new are the candidates whose id the
\* bulk filter did not return, in the candidates' order, and the bulk
\* filter returns the queried ids that have a row.
C7_Dedup ==
    \A s \in Slots :
        LET c == cycles[s] IN
        Filtered(c) =>
            /\ c.existingIds = Range(c.allTweets) \cap c.storeAtCheck
            /\ Range(c.newTweets) = Range(c.allTweets) \ c.existingIds
            /\ Len(c.newTweets) = Cardinality(Range(c.newTweets))
            /\ \A j, k \in DOMAIN c.newTweets :
                  j < k => PublishedAt[c.newTweets[j]] < PublishedAt[c.newTweets[k]]
\* The filter has split a feed into recorded and new tweets.
C7_Witness ==
    \E s \in Slots :
        /\ Filtered(cycles[s])
        /\ cycles[s].existingIds # {}
        /\ Len(cycles[s].newTweets) > 1

\* ------------------------------------------------------------ C8
C8_Step ==
    /\ isProcessing =>
          \A s \in Slots : cycles[s].pc = "idle" => cycles'[s].pc = "idle"
    /\ (cronLog # "skipped" /\ cronLog' = "skipped") =>
          UNCHANGED <<cycles, tweets_processed, consecutiveFailures,
                      alertSent, isProcessing>>
\* C8: at most one cycle is in flight, and an invocation of
\* runProcessingCycle while a cycle is in flight starts nothing and touches
\* neither the orchestrator, the sinks nor the store.
C8_NonReentrant ==
    /\ [](Cardinality(InFlight) <= 1 /\ (InFlight # {} => isProcessing))
    /\ [][C8_Step]_vars
\* The cron callback has fired during a dispatch and was turned away.
C8_Witness ==
    /\ cronLog = "skipped"
    /\ \E s \in Slots : cycles[s].pc \in {"telegram", "discord", "mark"}

\* ------------------------------------------------------------ C9
\* C9: no exception leaves process()/poll() nor runProcessingCycle.
C9_NeverThrows ==
    /\ ~crashed
    /\ \A s \in Slots : ~cycles[s].threw
\* A cycle that a store failure aborted, whose caller alert failed as well,
\* has reached the finally block.
C9_Witness ==
    \E s \in Slots :
        LET c == cycles[s] IN
        /\ c.pc = "finally" /\ c.aborted
        /\ \E k \in DOMAIN c.io : c.io[k][3] = "throw"
        /\ c.io[Len(c.io)] = <<"callerAlert", 0, "false">>

\* ------------------------------------------------------------ C10
\* The fetch of the cycle failed.
FetchFailed(c) == c.io # <<>> /\ c.io[1] = <<"fetchRSS", 0, "fetch">>
C11_RecheckBeforeSend ==
    \A s \in Slots :
        LET c == cycles[s] IN
        /\ \A k \in Events(c, {"telegram.sendTweet"}) :
              k > 1 /\ c.io[k - 1] = <<"exists", c.io[k][2], "false">>
        /\ \A id \in Ids :
              <<"exists", id, "true">> \in Range(c.io) =>
                  /\ EventsFor(c, SendOps \cup {"markAsProcessed"}, id) = {}

\* ------------------------------------------------------------ C12
Count(c, op, id) == Cardinality(EventsFor(c, {op}, id))
\* The cycle went through its whole dispatch loop.
LoopDone(c) == Returned(c) /\ ~c.aborted /\ ~c.early
\* C12: each dispatched tweet is sent once to Telegram and once to Discord
\* whatever the other send returned, and a failed send does not keep the
\* later tweets of the cycle from being dispatched.
C12_SinkIndependence ==
    \A s \in Slots :
        LET c == cycles[s] IN
        /\ \A id \in Ids :
              /\ Count(c, "telegram.sendTweet", id) <= 1
              /\ Count(c, "discord.sendTweet", id) =
                    IF c.pc = "discord" /\ c.queue[c.i] = id
                    THEN 0 ELSE Count(c, "telegram.sendTweet", id)
        /\ LoopDone(c) =>
              \A id \in Range(c.queue) :
                  \/ <<"exists", id, "true">> \in Range(c.io)
                  \/ /\ Count(c, "telegram.sendTweet", id) = 1
                     /\ Count(c, "discord.sendTweet", id) = 1
\* Both sinks refused the first tweet of a loop that went on to the others.
C12_Witness ==
    \E s \in Slots :
        LET c == cycles[s] IN
        /\ LoopDone(c) /\ Len(c.queue) > 1
        /\ c.queue[1] \in FailedBoth(c)
        /\ <<"telegram.sendTweet", c.queue[2], "false">> \in Range(c.io)
        /\ <<"discord.sendTweet", c.queue[2], "true">> \in Range(c.io)

\* ------------------------------------------------------------ C13
AlertOps == {"streakAlert", "callerAlert"}
\* The last call of the cycle that is not an alert.
LastCall(c) ==
    LET ks == {k \in DOMAIN c.io : c.io[k][1] \notin AlertOps}
    IN  c.io[CHOOSE k \in ks : \A j \in ks : j <= k]
\* C13: a markAsProcessed that throws, in per-post dispatch or in the
\* first-run backfill, is recorded as an error and does not abort the
\* cycle nor count as a failure of the streak.
C13_MarkFailureNonFatal ==
    \A s \in Slots :
        LET c == cycles[s] IN
        (/\ Events(c, SendOps \cup StoreOps) # {}
         /\ LastCall(c)[1] = "markAsProcessed" /\ LastCall(c)[3] = "throw")
        => /\ ~c.aborted /\ ~c.threw
           /\ svc = "streak" =>
                 /\ <<"DB error", LastCall(c)[2]>> \in Range(c.result.errors)
                 /\ consecutiveFailures <= c.cf0

\* ------------------------------------------------------------ C14
\* The reads of the store that threw.
ReadFailures(c) ==
    {k \in Events(c, {"filterExisting", "exists"}) :
        c.io[k][3] \in {"dbread", "throw"}}
ReadAborted(c) == ReadFailures(c) # {} /\ c.pc \in {"returned", "finally"}
\* What C14 says of both services but the counts.
ReadAbort(c) ==
    /\ c.aborted /\ ~c.threw
    /\ \A k \in ReadFailures(c) : \A j \in DOMAIN c.io :
          j > k => c.io[j][1] \in AlertOps
    /\ <<"dbread", 0>> \in Range(c.result.errors)
    /\ svc = "poll" => c.pollResult.success = FALSE
    /\ svc = "streak" => consecutiveFailures = c.cf0 + 1
\* C14 as claimed: a store read failure aborts the cycle as a fetch failure
\* does, and the returned result has zero counts.
C14_ReadFailureZeroCounts ==
    \A s \in Slots :
        LET c == cycles[s] IN
        ReadAborted(c) =>
            /\ ReadAbort(c)
            /\ c.result = [ZeroResult EXCEPT !.errors = c.result.errors]
\* C14 as amended: a store read failure aborts the cycle, with no send and
\* no store write after it, the error recorded, success = false and the
\* failure counted; the new and per-sink counts are zero, and totalFetched
\* is zero in the poll service's result while the streak service's result
\* keeps the number of tweets fetched.
C14_ReadFailureAborts ==
    \A s \in Slots :
        LET c == cycles[s] IN
        ReadAborted(c) =>
            /\ ReadAbort(c)
            /\ c.result = [ZeroResult EXCEPT
                  !.errors = c.result.errors,
                  !.totalFetched =
                      IF svc = "streak" THEN Len(c.allTweets) ELSE 0]
\* The recheck of the second tweet threw after the first had been sent.
C14_Witness ==
    \E s \in Slots :
        LET c == cycles[s] IN
        /\ ReadAborted(c)
        /\ Events(c, SendOps) # {}
        /\ c.io[Len(c.io)][1] = "exists"

\* ------------------------------------------------------------ C16
IsTelegramSend(e) == e[1] = "telegram.sendTweet"
\* The ids of the tweets dispatched by the cycle, in dispatch order.
Dispatched(c) ==
    LET es == SelectSeq(c.io, IsTelegramSend)
    IN  [k \in DOMAIN es |-> es[k][2]]
\* No tweet is sent before a tweet of the cycle published earlier.
OldestFirst(c) ==
    \A j, k \in Events(c, SendOps) :
        j < k => PublishedAt[c.io[j][2]] <= PublishedAt[c.io[k][2]]
\* A loop over the three candidates, all new, published at T1 = 2, T2 = 1
\* and T3 = 3 (PublishedAt), none skipped by the recheck.
ThreeNew(c) ==
    /\ LoopDone(c) /\ ~c.single
    /\ Range(c.queue) = Ids
    /\ Len(Dispatched(c)) = 3
\* C16 as claimed: candidates published at T3 > T1 > T2 are dispatched in
\* the order T1, T2, T3, and no tweet is sent before one published earlier.
C16_OrderT1T2T3 ==
    \A s \in Slots :
        LET c == cycles[s] IN
        /\ OldestFirst(c)
        /\ ThreeNew(c) => Dispatched(c) = <<1, 2, 3>>
\* C16 as amended: candidates published at T3 > T1 > T2 are dispatched in
\* the order T2, T1, T3, oldest first, and no tweet is sent before a tweet
\* of the same cycle published earlier.
C16_OldestFirst ==
    \A s \in Slots :
        LET c == cycles[s] IN
        /\ OldestFirst(c)
        /\ ThreeNew(c) => Dispatched(c) = <<2, 1, 3>>
C16_Witness ==
    \E s \in Slots : ThreeNew(cycles[s]) /\ Dispatched(cycles[s]) = <<2, 1, 3>>

\* ------------------------------------------------------------ C17
\* The feed was fetched and parsed, and held no tweet.
EmptyFeed(c) ==
    /\ c.pc \in {"returned", "finally"}
    /\ c.io # <<>> /\ c.io[1] = <<"fetchRSS", 0, "ok">>
    /\ c.allTweets = <<>>
\* C17: a feed without tweets gives totalFetched = 0, newTweets = 0,
\* success = true and no error, and the cycle calls no sink and no store.
C17_EmptyFeed ==
    \A s \in Slots :
        LET c == cycles[s] IN
        EmptyFeed(c) =>
            /\ c.result = ZeroResult
            /\ ~c.aborted /\ ~c.threw
            /\ svc = "poll" => c.pollResult.success = TRUE
            /\ c.io = <<<<"fetchRSS", 0, "ok">>>>
C17_Witness ==
    \E s \in Slots : EmptyFeed(cycles[s]) /\ cycles[s].pc = "returned"

\* ------------------------------------------------------------ C18
\* The step completes a cycle that was not aborted.
CompletesCycle ==
    \E s \in Slots :
        /\ cycles[s].pc # "returned"
        /\ cycles'[s].pc = "returned" /\ ~cycles'[s].aborted
C18_Step ==
    /\ \A s \in Slots :
          /\ StreakAlerts(cycles'[s]) <= 1
          /\ StreakAlerts(cycles'[s]) > StreakAlerts(cycles[s]) =>
                /\ ~alertSent /\ alertSent'
                /\ ~cycles'[s].threw
    /\ (alertSent /\ ~alertSent') => CompletesCycle
\* C18: a streak alert is attempted only while alertSent is false and sets
\* it, delivered or not, without throwing; alertSent falls back to false
\* only when a cycle that was not aborted completes it, so one failure
\* streak has at most one alert attempt.
C18_OneAlertPerStreak == [][C18_Step]_vars
\* The alert was not delivered and alertSent is set.
C18_Witness ==
    \E s \in Slots :
        LET c == cycles[s] IN
        /\ c.io # <<>> /\ c.io[Len(c.io)] = <<"streakAlert", 0, "false">>
        /\ alertSent

\* ------------------------------------------------------------ C20
MarkedNew(c) ==
    Cardinality({k \in Events(c, {"markAsProcessed"}) : c.io[k][3] = "true"})
C15_Step ==
    /\ \A id \in Ids : tweets_processed'[id] <= 1
    /\ \A id \in Ids :
          calls'[id] = calls[id] + 1 =>
              /\ returned'.id = id
              /\ IF calls[id] = 0
                 THEN /\ returned'.value = TRUE
                      /\ tweets_processed' =
                            [tweets_processed EXCEPT ![id] = 1]
                      /\ published_at' =
                            [published_at EXCEPT ![id] = returned'.publishedAt]
                 ELSE /\ returned'.value = FALSE
                      /\ UNCHANGED <<tweets_processed, published_at>>
\* C15: the first markAsProcessed of an id returns true and inserts one
\* row; every later call for that id returns false and leaves the table,
\* the row's published_at included, as it was; no id ever has two rows.
C15_Idempotent == [][C15_Step]_vars
\* A second call, with another published_at, found the row and kept it.
C15_Witness ==
    \E id \in Ids :
        /\ calls[id] >= 2 /\ returned.id = id /\ returned.value = FALSE
        /\ tweets_processed[id] = 1
        /\ published_at[id] # returned.publishedAt

\* ------------------------------------------------------------ C19
C19_Step ==
    /\ isShuttingDown =>
          \A s \in Slots : cycles[s].pc = "idle" => cycles'[s].pc = "idle"
    /\ (isReady /\ ~isReady') =>
          /\ isShuttingDown'
          /\ ~isProcessing \/ elapsed >= MaxWait
    /\ (~dbIsShuttingDown /\ dbIsShuttingDown') => ~isReady
\* C19: once the shutdown handler has run no cycle is started; the Discord
\* client and then the database are closed only when no cycle is in flight
\* or the wait has run out; and the teardown is always reached, whether or
\* not the cycle in flight ever finishes.
C19_Shutdown == [][C19_Step]_vars /\ (isShuttingDown ~> ~isReady)
\* The wait ran out on a cycle still in flight, and the teardown went on.
C19_Witness ==
    /\ dbIsShuttingDown /\ isProcessing /\ elapsed = MaxWait
    /\ \E s \in Slots : cycles[s].pc \notin {"idle", "finally"}

\* ------------------------------------------------------------ C21
RECURSIVE ErrorsOf(_)
\* One entry for each outcome that carries an error, in outcome order.
ErrorsOf(rs) ==
    IF rs = <<>> THEN <<>>
    ELSE (IF Head(rs).error # "none"
          THEN <<<<Head(rs).error, Head(rs).tweetId>>>> ELSE <<>>)
         \o ErrorsOf(Tail(rs))
Flagged(rs, sink, flag) ==
    Cardinality({k \in DOMAIN rs : rs[k][sink] = flag /\ (flag \/ ~rs[k].skipped)})
\* C21: the legacy result is a projection of poll()'s result: a sink's
\* success total counts the outcomes with its flag true, its failure total
\* the non-skipped outcomes with its flag false, the error list has one
\* entry for each outcome with an error, in outcome order, and the cycle's
\* error, if any, comes first.
C21_LegacyProjection ==
    input.op = "process" =>
        LET p == input.poll
            r == output.result
        IN  /\ r.telegramSuccess = Flagged(p.results, "telegram", TRUE)
            /\ r.telegramFailed = Flagged(p.results, "telegram", FALSE)
            /\ r.discordSuccess = Flagged(p.results, "discord", TRUE)
            /\ r.discordFailed = Flagged(p.results, "discord", FALSE)
            /\ r.errors = (IF p.error = "none" THEN <<>>
                           ELSE <<<<p.error, 0>>>>) \o ErrorsOf(p.results)
\* A skipped outcome next to one that failed on both sinks.
C21_Witness ==
    /\ input.op = "process"
    /\ \E j, k \in DOMAIN input.poll.results :
          /\ input.poll.results[j].skipped
          /\ input.poll.results[k].error # "none"
    /\ output.result.telegramFailed = 1

\* ------------------------------------------------------------ C22
\* The repost marker and the two reply markers.
Markers == {<<"R", "T", " ", "@">>, <<"@">>, <<"R", " ", "@">>}
BeginsWithMarker(t) ==
    \E m \in Markers :
        /\ Len(t) >= Len(m)
        /\ \A j \in 1..Len(m) : t[j] = m[j]
\* C22: an item whose cleaned title begins with 'RT @', '@' or 'R @' is
\* not among the tweets toTweets returns, whatever its link and its date.
C22_MarkedNeverEmitted ==
    input.op = "toTweets" =>
        \A k \in DOMAIN input.items :
            BeginsWithMarker(cleanTweetText(input.items[k].title)) =>
                input.items[k].link \notin Range(output.tweets)
\* A reply with a valid link and date, marked only once its title is
\* cleaned, was dropped while the tweet next to it was emitted.
C22_Witness ==
    /\ input.op = "toTweets"
    /\ \E k \in DOMAIN input.items :
          LET x == input.items[k] IN
          /\ x.link # 0 /\ x.dateOk
          /\ x.title # <<>> /\ x.title[1] = " "
          /\ cleanTweetText(x.title) = <<"R", " ", "@">>
    /\ Len(output.tweets) = 1

\* ------------------------------------------------------------ C23
\* The tweets a sink accepted in the cycle.
DeliveredIds(c) ==
    {c.io[k][2] : k \in {j \in Events(c, SendOps) : c.io[j][3] = "true"}}
\* The post the first run relays on the feed that stays.
Relayed == LatestTweet(toTweets(HistoricalFeed))
\* C23: from an empty store and with the feed fixed at N > 1 historical
\* posts, at most one of them is ever sent to a sink, whatever fails: the
\* first send of all is the first run's, so every send of every cycle is
\* of the post the first run relays.
C23_OnlyOneEverSent ==
    svc = "streak" =>
        \A s \in Slots : DeliveredIds(cycles[s]) \subseteq {Relayed}

\* ------------------------------------------------------------ C24
\* The literal condition of the first-run branch.
FirstRunCondition(c) ==
    /\ c.existingIds = {}
    /\ Len(c.newTweets) = Len(c.allTweets)
    /\ Len(c.allTweets) > 1
\* The cycle took the first-run branch: it is in the backfill, or it wrote
\* to the store for a tweet it had not sent.
TookFirstRun(c) ==
    \/ c.pc = "backfill"
    \/ \E k \in Events(c, {"markAsProcessed"}) :
          \A j \in EventsFor(c, SendOps, c.io[k][2]) : j > k
\* The tweets the cycle recorded without sending them.
RecordedUnsent(c) ==
    {id \in Ids : /\ EventsFor(c, {"markAsProcessed"}, id) # {}
                  /\ EventsFor(c, SendOps, id) = {}}
\* C24: the first-run branch is taken exactly when the bulk filter found
\* no id, every tweet fetched is new and there is more than one, nothing
\* else of the store being asked; and a cycle that took it has recorded
\* N - 1 tweets as processed without sending them.
C24_FirstRunBranch ==
    svc = "streak" =>
        \A s \in Slots :
            LET c == cycles[s] IN
            /\ (Filtered(c) /\ Len(c.newTweets) > 0) =>
                  (TookFirstRun(c) <=> FirstRunCondition(c))
            /\ (Returned(c) /\ TookFirstRun(c)) =>
                  Cardinality(RecordedUnsent(c)) = Len(c.allTweets) - 1

\* ------------------------------------------------------------ C25
\* The normal dispatch loop is about to send the post that stays.
NormalNew(c) ==
    /\ c.pc = "telegram" /\ ~c.single
    /\ c.queue[c.i] = Post
\* A sink accepted the post and the store holds it.
DeliveredAndRecorded(c) ==
    /\ Post \in DeliveredIds(c)
    /\ tweets_processed[Post] > 0
\* C25: a post that is new in a cycle of normal dispatch and stays in the
\* feed is in the end accepted by a sink and recorded in the store, as
\* long as cycles keep coming and the fetch, the store and a sink are not
\* down for ever.
C25_RetryLiveness ==
    (svc = "streak" /\ \E s \in Slots : NormalNew(cycles[s]))
        ~> (\E s \in Slots : DeliveredAndRecorded(cycles[s]))

\* ------------------------------------------------------------ C26
PostOps == SendOps \cup {"exists", "markAsProcessed"}
\* The order of the calls for one post.
PostOrder ==
    <<"exists", "telegram.sendTweet", "discord.sendTweet", "markAsProcessed">>
\* The calls the cycle made for the post, in order.
OpsOf(c, id) ==
    LET ForPost(e) == e[1] \in PostOps /\ e[2] = id
        es == SelectSeq(c.io, ForPost)
    IN  [k \in DOMAIN es |-> es[k][1]]
\* The posts the cycle dispatched: rechecked or sent.
DispatchedIds(c) ==
    {c.io[k][2] : k \in Events(c, SendOps \cup {"exists"})}
\* C26: the calls of a cycle for a dispatched post are the recheck, the
\* Telegram send, the Discord send and the store write, in that order and
\* one after the other; the write comes only when a send succeeded; and
\* the calls for a post are over before those for the next begin.
C26_Sequential ==
    \A s \in Slots :
        LET c == cycles[s] IN
        \A id \in DispatchedIds(c) :
            LET E == EventsFor(c, PostOps, id) IN
            /\ OpsOf(c, id) = SubSeq(PostOrder, 1, Len(OpsOf(c, id)))
            /\ \A j, k \in E : \A m \in j..k : m \in E
            /\ EventsFor(c, {"markAsProcessed"}, id) # {} =>
                  id \in DeliveredIds(c)


\* ------------------------------------------------------------ C27
\* The cycle in slot s has delivered the post to the sink after its own
\* recheck found no row.
PassedAndSent(s, op) ==
    /\ <<"exists", Post, "false">> \in Range(cycles[s].io)
    /\ <<op, Post, "true">> \in Range(cycles[s].io)
\* C27: with cycles running at once (the guard absent), the recheck stops
\* a cycle only when the row is there at the moment it looks: a cycle goes
\* on from its recheck to the sends exactly when the store has no row for
\* the post at that step, so a row that lands later stops nothing. The
\* witness is the interleaving of the claim: both cycles pass the recheck
\* before either mark lands, and the post is sent twice to the same sink.
C27_RecheckIsNoLock ==
    [][svc = "poll" =>
          \A s \in Slots :
              (cycles[s].pc = "exists" /\ cycles'[s].pc = "telegram") =>
                  tweets_processed[cycles[s].queue[cycles[s].i]] = 0]_vars
\* Two cycles in flight have both passed the recheck and both delivered the
\* post to the same sink; the first write inserted the row, the second
\* found it.
C27_Witness ==
    /\ svc = "poll"
    /\ \E a, b \in Slots : \E op \in SendOps :
          /\ a # b
          /\ PassedAndSent(a, op) /\ PassedAndSent(b, op)
          /\ <<"markAsProcessed", Post, "true">> \in Range(cycles[a].io)
          /\ <<"markAsProcessed", Post, "false">> \in Range(cycles[b].io)

\* ------------------------------------------------------------ C28
\* The sends of the cycle to one sink, by what they returned.
Accepted(c, op) == {k \in Events(c, {op}) : c.io[k][3] = "true"}
Refused(c, op) == {k \in Events(c, {op}) : c.io[k][3] # "true"}
\* The per-sink counts of the result are those of the sends made.
CountsKept(c) ==
    /\ c.result.telegramSuccess = Cardinality(Accepted(c, "telegram.sendTweet"))
    /\ c.result.telegramFailed = Cardinality(Refused(c, "telegram.sendTweet"))
    /\ c.result.discordSuccess = Cardinality(Accepted(c, "discord.sendTweet"))
    /\ c.result.discordFailed = Cardinality(Refused(c, "discord.sendTweet"))
\* C28: the result a cycle returns keeps what the cycle did, also when a
\* step failed after posts were dispatched: its per-sink counts are those
\* of the sends the cycle made, and the polling result has the outcome of
\* every post it sent.
C28_KeepsWhatWasDone ==
    \A s \in Slots :
        LET c == cycles[s] IN
        Returned(c) =>
            /\ CountsKept(c)
            /\ svc = "poll" =>
                  SentIds(c) \subseteq
                      {c.pollResult.results[k].tweetId :
                           k \in DOMAIN c.pollResult.results}

\* ------------------------------------------------------------ C29
\* The step aborts the cycle in slot s: process() enters its catch block.
Aborts(s) == ~cycles[s].aborted /\ cycles'[s].aborted
C29_State ==
    /\ consecutiveFailures >= 0
    /\ alertSent => consecutiveFailures >= FAILURE_THRESHOLD
C29_Step ==
    /\ consecutiveFailures' # consecutiveFailures =>
          \/ /\ consecutiveFailures' = consecutiveFailures + 1
             /\ \E s \in Slots : Aborts(s)
          \/ consecutiveFailures' = 0
    /\ svc = "streak" =>
          \A s \in Slots :
              Aborts(s) => consecutiveFailures' = consecutiveFailures + 1
\* C29: in every state consecutiveFailures >= 0 and alertSent implies
\* consecutiveFailures >= FAILURE_THRESHOLD; every aborted cycle adds
\* exactly one to consecutiveFailures, and it changes in no other way than
\* by a reset to 0.
C29_StreakInvariant == []C29_State /\ [][C29_Step]_vars
\* The streak has gone past the threshold with the alert already sent.
C29_Witness ==
    /\ alertSent
    /\ consecutiveFailures > FAILURE_THRESHOLD
    /\ \E s \in Slots : cycles[s].aborted

\* ------------------------------------------------------------ C30
\* The cycle's fetch, parse and store reads succeeded, it sent to the sinks
\* and no send was accepted.
EverySendFailed(c) ==
    /\ Filtered(c)
    /\ SentIds(c) # {}
    /\ DeliveredIds(c) = {}
\* C30: sink failures do not feed the failure streak: when a cycle whose
\* fetch, parse and store reads succeeded and whose every send failed has
\* returned, consecutiveFailures is 0, alertSent is false and the cycle
\* made no streak alert.
C30_SinkFailuresNoStreak ==
    svc = "streak" =>
        \A s \in Slots :
            LET c == cycles[s] IN
            (c.pc = "returned" /\ EverySendFailed(c)) =>
                /\ consecutiveFailures = 0
                /\ ~alertSent
                /\ Events(c, {"streakAlert"}) = {}
\* Such a cycle has returned after a streak that had reached the alert.
C30_Witness ==
    /\ svc = "streak"
    /\ \E s \in Slots :
          LET c == cycles[s] IN
          /\ c.pc = "returned" /\ EverySendFailed(c)
          /\ c.cf0 >= FAILURE_THRESHOLD /\ c.sent0

\* ------------------------------------------------------------ C31
\* The step sends the post to a sink.
SendsPost(s) ==
    /\ Len(cycles'[s].io) > Len(cycles[s].io)
    /\ LET e == cycles'[s].io[Len(cycles'[s].io)] IN
       e[1] \in SendOps /\ e[2] = Post
C31_State ==
    \A s \in Slots :
        Post \in cycles[s].storeAtCheck => SentIds(cycles[s]) = {}
C31_Step ==
    /\ tweets_processed[Post] > 0 => tweets_processed'[Post] > 0
    /\ \A s \in Slots : SendsPost(s) => tweets_processed[Post] = 0
Finishes(s) == cycles[s].pc = "finally" /\ cycles'[s].pc = "idle"
C32_Step ==
    /\ \A s \in Slots : Finishes(s) => ~isProcessing'
    /\ (cronLog # "skipped" /\ cronLog' = "skipped") => InFlight # {}
\* C32: the guard is always released: isProcessing is set only while an
\* invocation is in flight, the step that ends an invocation leaves it
\* false whatever the cycle returned and whatever became of the caller's
\* alert, the cron callback is turned away only by a cycle in flight, and
\* an invocation that set the guard releases it in the end.
C32_GuardReleased ==
    /\ [](isProcessing => InFlight # {})
    /\ [][C32_Step]_vars
    /\ (isProcessing ~> ~isProcessing)
\* The guard is free after a cycle that returned errors (both sinks refused
\* a post) and the cron callback has started another cycle since.
C32_Witness ==
    /\ ~isProcessing
    /\ InFlight = {}
    /\ prev # NoPrev
    /\ cronLog = "ran"

\* ------------------------------------------------------------ C33
CallerAlerts(c) == Cardinality(Events(c, {"callerAlert"}))
\* C33: runProcessingCycle makes one alert call for every cycle that
\* returned errors or threw and none for any other, whatever
\* consecutiveFailures and alertSent are; it makes none before process()
\* is over, so the cycle that makes the streak alert makes two alert calls.
C33_CallerAlertPerCycle ==
    \A s \in Slots :
        LET c == cycles[s] IN
        /\ c.pc = "finally" =>
              /\ CallerAlerts(c) =
                    IF c.threw \/ Len(c.result.errors) > 0 THEN 1 ELSE 0
              /\ StreakAlerts(c) = 1 => Cardinality(Events(c, AlertOps)) = 2
        /\ c.pc # "finally" => CallerAlerts(c) = 0
\* The cycle that crossed the threshold has made the streak alert and the
\* caller's alert.
C33_Witness ==
    \E s \in Slots :
        LET c == cycles[s] IN
        /\ c.pc = "finally"
        /\ StreakAlerts(c) = 1 /\ CallerAlerts(c) = 1
        /\ consecutiveFailures = FAILURE_THRESHOLD

\* ------------------------------------------------------------ C34
\* The posts the cycle passed to processSingleTweet: the latest one in the
\* first-run branch, every new one in the other, none when the cycle
\* returned early or was aborted.
PassedToDispatch(c) ==
    IF c.early \/ c.aborted THEN 0
    ELSE IF c.single THEN 1 ELSE Len(c.newTweets)
TelegramCount(c) == c.result.telegramSuccess + c.result.telegramFailed
DiscordCount(c) == c.result.discordSuccess + c.result.discordFailed
\* The counters of the result never go down.
Grows(r, q) ==
    /\ q.telegramSuccess >= r.telegramSuccess
    /\ q.telegramFailed >= r.telegramFailed
    /\ q.discordSuccess >= r.discordSuccess
    /\ q.discordFailed >= r.discordFailed
C34_State ==
    \A s \in Slots :
        LET c == cycles[s] IN
        (svc = "streak" /\ Returned(c)) =>
            /\ TelegramCount(c) = PassedToDispatch(c)
            /\ DiscordCount(c) = PassedToDispatch(c)
C34_Step ==
    \A s \in Slots :
        LET c == cycles[s]
            d == cycles'[s]
        IN  (svc = "streak" /\ c.pc \notin {"idle", "finally"}) =>
            /\ Grows(c.result, d.result)
            /\ TelegramCount(d) = TelegramCount(c) +
                  (IF c.pc = "telegram" /\ d.pc = "discord" THEN 1 ELSE 0)
            /\ DiscordCount(d) = DiscordCount(c) +
                  (IF c.pc = "discord" /\ d.pc # "discord" THEN 1 ELSE 0)
\* C34: in every result of the streak-tracking service the two counters of
\* Telegram and the two of Discord both add up to the number of posts
\* passed to per-post dispatch, and the dispatch of a post adds one to
\* exactly one counter of each sink.
C34_CountersAddUp == []C34_State /\ [][C34_Step]_vars
\* Two posts were dispatched; one sink took the first and refused the
\* second.
C34_Witness ==
    /\ svc = "streak"
    /\ \E s \in Slots :
          LET c == cycles[s] IN
          /\ Returned(c) /\ PassedToDispatch(c) = 2
          /\ c.result.telegramSuccess = 1 /\ c.result.telegramFailed = 1
          /\ c.result.discordFailed = 2

\* ------------------------------------------------------------ C35
\* The replies before the last were all failures that may be retried.
EarlierRetryable(replies) ==
    \A k \in 1..(Len(replies) - 1) :
        AttemptFails(replies[k]) /\ replies[k].status \in {0, 429, 500}
C35_State ==
    input.op = "fetchRSS" =>
        LET replies == input.replies
            n == Len(replies)
        IN
        /\ n <= input.maxRetries
        /\ EarlierRetryable(replies)
        /\ output.op = "running" =>
              /\ n < input.maxRetries
              /\ n > 0 => replies[n].status \in {0, 429, 500}
        /\ output.op = "returned" =>
              /\ n > 0 /\ replies[n].status = 200
              /\ output.data = replies[n].data
              /\ output.data \notin {<<>>, <<" ">>, <<" ", " ">>}
        /\ output.op = "threw" =>
              \/ n = 0 /\ input.maxRetries = 0
              \/ /\ n > 0
                 /\ replies[n].status # 200 \/
                       replies[n].data \in {<<>>, <<" ">>, <<" ", " ">>}
                 /\ n = input.maxRetries \/
                       replies[n].status \notin {0, 429, 500}
\* C35: fetchRSS makes at most maxRetries attempts, returns the body of the
\* first attempt that has a body which is not blank, goes to another
\* attempt only after a network error, a 5xx or a 429 that was not the
\* last attempt, throws after any other failure (an empty body among them)
\* and after the last attempt, never returns an empty or blank document,
\* and every call ends with a return or a throw.
C35_FetchTerminates ==
    /\ []C35_State
    /\ (input.op = "fetchRSS" ~> output.op \in {"returned", "threw"})
\* The last of maxRetries attempts returned a document after retries.
C35_Witness ==
    /\ input.op = "fetchRSS"
    /\ output.op = "returned"
    /\ Len(input.replies) = input.maxRetries
    /\ input.maxRetries > 1

\* ------------------------------------------------------------ C36
SinkOps == {"telegram.sendTweet", "discord.sendTweet", "discord.sendAlert"}
C36_State ==
    /\ output.op \in SinkOps =>
          /\ ~output.threw
          /\ output.value => output.attempted
          /\ (output.op # "telegram.sendTweet" /\ ~output.ready) =>
                ~output.attempted /\ ~output.value
    /\ input.op = "sink" =>
          /\ input.closed => ~isReady
          /\ input.last \in {"disconnect", "close"} => ~isReady
C36_Step ==
    /\ (~isReady /\ isReady') => input'.last = "ready"
    /\ (input.op = "sink" /\ input.closed) => input'.closed
\* C36: no call of a sink ends with an exception: an error inside the call
\* comes back as false. The Discord sink hands nothing to the library and
\* returns false when it is called while not ready; it is not ready from
\* a disconnect event until the next ready event, and for good once
\* close() was called.
C36_FailureIsAValue == []C36_State /\ [][C36_Step]_vars
\* Discord was called after close() and returned false without a send.
C36_Witness ==
    /\ input.op = "sink" /\ input.closed
    /\ output.op = "discord.sendTweet"
    /\ ~output.ready /\ ~output.attempted /\ ~output.value

=============================================================================
